---- MODULE Spec2Model ----
(***************************************************************************)
(* A model of HtmlTester (src/test_html_lib/html_tester.py): the request   *)
(* interceptor with its page composer and synthetic CSV responder, and the *)
(* test() coroutine that registers a snippet, drives a browser to it and   *)
(* polls the browser's console log.                                        *)
(*                                                                         *)
(* Text is modelled as a sequence of tokens (strings), so that joining,    *)
(* replacing and trimming are computed and not assumed.                    *)
(***************************************************************************)
EXTENDS Integers, Sequences, FiniteSets, TLC

(***************************************************************************)
(* Bounds of the model.                                                    *)
(***************************************************************************)
\* test() calls made in one behaviour (each mints one uuid)
MaxCalls == 2
\* entries one get_log("browser") call returns at most
MaxLogLen == 2
\* the largest wait budget, in whole seconds, the tester is constructed with
MaxBudget == 2
\* supporting scripts handed to one prepare_html_snippet call at most
MaxScripts == 3
\* pieces (a URL, a locator, a word, a blank) a console message is made of at most
MaxPieces == 4

(***************************************************************************)
(* Program constants.                                                      *)
(***************************************************************************)
\* total_wait_time/20: the number of samples the budget is split into
Samples == 20
\* range(3): data rows of the synthetic CSV
CsvRows == 3

\* the coroutines that call test(); "A" alone is a caller that awaits its
\* calls one after the other
Tasks == {"A", "B"}
SeqTasks == {"A"}
NoTask == "none"

\* snippets handed to test()
Htmls == {"<p>one</p>", "<canvas>two</canvas>"}
NoHtml == "None"
\* the snippet of the calls whose text plays no part
AnHtml == CHOOSE html \in Htmls : TRUE

\* self.driver = None; browsers are numbered by the call that created them
NoDriver == 0
Browsers == 1..MaxCalls

\* budgets the tester is constructed with, written in tenths of a second:
\* -1, 0, 0.9 and MaxBudget seconds (max_wait_time_seconds: float = 2.0; the CLI
\* passes int(argv[2]))
Budgets == {-10, 0, 9, 10 * MaxBudget}

(***************************************************************************)
(* Sequence helpers.                                                       *)
(***************************************************************************)
RECURSIVE Concat(_)
Concat(ss) == IF ss = <<>> THEN <<>> ELSE Head(ss) \o Concat(Tail(ss))

SeqsUpTo(S, n) == UNION {[1..k -> S] : k \in 0..n}

IsPrefixAt(s, sub, i) ==
    /\ i + Len(sub) - 1 <= Len(s)
    /\ \A k \in 1..Len(sub) : s[i + k - 1] = sub[k]

\* str.find(sub) != -1
Contains(s, sub) == \E i \in 1..(Len(s) + 1) : IsPrefixAt(s, sub, i)

\* str.replace(old, new): every non-overlapping occurrence, left to right
RECURSIVE Replace(_, _, _)
Replace(s, old, new) ==
    IF s = <<>> \/ old = <<>> THEN s
    ELSE IF IsPrefixAt(s, old, 1)
         THEN new \o Replace(SubSeq(s, Len(old) + 1, Len(s)), old, new)
         ELSE <<Head(s)>> \o Replace(Tail(s), old, new)

\* sep.join(items), each item one token
RECURSIVE Join(_, _)
Join(items, sep) ==
    IF items = <<>> THEN <<>>
    ELSE IF Len(items) = 1 THEN <<items[1]>>
    ELSE <<items[1], sep>> \o Join(Tail(items), sep)

\* str(i) for the row indices
Str(i) == <<"0", "1", "2", "3", "4", "5", "6", "7", "8", "9">>[i + 1]

(***************************************************************************)
(* SQL: the token tree sqlparse returns for a statement.  A token has its  *)
(* exact Python type, a real name and an alias (Identifier only) and its   *)
(* sub-tokens (groups only).                                               *)
(***************************************************************************)
Tok(ty) == [type |-> ty, name |-> "", alias |-> "", tokens |-> <<>>]
Ident(n, a, kids) == [type |-> "Identifier", name |-> n, alias |-> a, tokens |-> kids]
Group(ty, kids) == [type |-> ty, name |-> "", alias |-> "", tokens |-> kids]

\* Identifier.get_name(): the alias when there is one, else the real name
get_name(token) == IF token.alias # "" THEN token.alias ELSE token.name

\* IdentifierList.get_identifiers(): the sub-tokens that are neither
\* whitespace nor punctuation
get_identifiers(token) ==
    SelectSeq(token.tokens, LAMBDA x : x.type \notin {"Whitespace", "Punctuation"})

\* the branch of parse_tokens_resursive that appends the name
IdentifierNames(token) ==
    IF token.type = "Identifier" THEN <<get_name(token)>> ELSE <<>>

RECURSIVE parse_tokens_resursive(_)
parse_tokens_resursive(token) ==
    IdentifierNames(token)
    \o (IF token.type = "IdentifierList"
        THEN Concat([i \in 1..Len(get_identifiers(token)) |->
                        parse_tokens_resursive(get_identifiers(token)[i])])
        ELSE <<>>)
    \o (IF token.type = "TokenList"
        THEN Concat([i \in 1..Len(token.tokens) |->
                        parse_tokens_resursive(token.tokens[i])])
        ELSE <<>>)

get_column_names(statement) ==
    Concat([i \in 1..Len(statement.tokens) |->
               parse_tokens_resursive(statement.tokens[i])])

\* mutant: the row has one cell per header and no extra leading cell
CsvRowNoIndex(i, headers) ==
    Join([k \in 1..Len(headers) |-> Str(i)], ",") \o <<"\n">>

\* one data row of the synthetic CSV: str(i), then str(i) once per header
CsvRow(i, headers) ==
    Join(<<Str(i)>> \o [k \in 1..Len(headers) |-> Str(i)], ",") \o <<"\n">>

\* fake_fetch_csv_response, after sqlparse.parse(sql)[0]
fake_fetch_csv_response(statement) ==
    LET headers == get_column_names(statement)
    IN  Join(headers, ",") \o <<"\n">>
        \o Concat([r \in 1..CsvRows |-> CsvRow(r - 1, headers)])

\* statements as sqlparse groups them
WS == Tok("Whitespace")
Comma == Tok("Punctuation")
Select == Tok("Keyword")
\* SELECT 1
StmtNoColumns == Group("Statement", <<Select, WS, Tok("Token")>>)
\* SELECT a FROM t
StmtOne ==
    Group("Statement", <<Select, WS, Ident("a", "", <<Tok("Token")>>), WS,
                         Tok("Keyword"), WS, Ident("t", "", <<Tok("Token")>>)>>)
\* SELECT a, b FROM (...) WHERE x = 1
StmtList ==
    Group("Statement",
          <<Select, WS,
            Group("IdentifierList",
                  <<Ident("a", "", <<Tok("Token")>>), Comma, WS,
                    Ident("b", "", <<Tok("Token")>>)>>),
            WS, Tok("Keyword"), WS,
            Group("Parenthesis", <<Ident("t", "", <<Tok("Token")>>)>>), WS,
            Group("Where", <<Tok("Keyword"), WS, Ident("x", "", <<Tok("Token")>>)>>)>>)
\* SELECT COUNT(Id) AS n, Total AS s, Id
StmtAlias ==
    Group("Statement",
          <<Select, WS,
            Group("IdentifierList",
                  <<Ident("", "n", <<Group("Function", <<Ident("COUNT", "", <<>>),
                                       Group("Parenthesis", <<Ident("Id", "", <<>>)>>)>>)>>),
                    Comma, WS, Ident("Total", "s", <<Tok("Token")>>),
                    Comma, WS, Ident("Id", "", <<Tok("Token")>>)>>)>>)
\* a statement holding a plain TokenList group
StmtPlainList ==
    Group("Statement",
          <<Select, WS,
            Group("TokenList", <<Ident("c", "", <<>>), WS,
                                 Group("IdentifierList", <<Ident("d", "e", <<>>)>>)>>)>>)
\* SELECT a FROM t WHERE x = 1
StmtWhere ==
    Group("Statement",
          <<Select, WS, Ident("a", "", <<Tok("Token")>>), WS, Tok("Keyword"), WS,
            Ident("t", "", <<Tok("Token")>>), WS,
            Group("Where",
                  <<Tok("Keyword"), WS,
                    Group("Comparison",
                          <<Ident("x", "", <<Tok("Token")>>), WS, Tok("Token"), WS,
                            Tok("Token")>>)>>)>>)
Statements == {StmtNoColumns, StmtOne, StmtList, StmtAlias, StmtPlainList, StmtWhere}

(***************************************************************************)
(* The page composer.                                                      *)
(***************************************************************************)
\* Script(content, url, name)
Script(content, url, name) == [content |-> content, url |-> url, name |-> name]
dashboard_script ==
    Script(<<"dashboard_javascript_content">>, "dashboard_javascript.js",
           "dashboard_javascript")
chart_library_script == Script(<<"chart_library_content">>, "chart.js", "chart_library")

html_header_content == <<"<html><body>", "<head>">>
html_style_close_header ==
    <<"<style> canvas { max-width: 300px; max-height: 300px; } </style>", "</head>">>

\* a script other than the two the tester holds
other_script == Script(<<"other_content">>, "other.js", "other")
Scripts == {dashboard_script, chart_library_script, other_script}

\* f"<script src=\"{script.url}\" id=\"{script.name}\"></script>"
ScriptTag(script) == <<"<script src=", script.url, " id=", script.name, "></script>">>

\* mutant: the script tags are emitted last script first
prepare_html_snippetReversed(html_snippet, scripts) ==
    html_header_content
    \o Concat([i \in 1..Len(scripts) |-> ScriptTag(scripts[Len(scripts) + 1 - i])])
    \o html_style_close_header
    \o <<"<div>", html_snippet, "</div>">>
    \o <<"</body></html>">>

prepare_html_snippet(html_snippet, scripts) ==
    html_header_content
    \o Concat([i \in 1..Len(scripts) |-> ScriptTag(scripts[i])])
    \o html_style_close_header
    \o <<"<div>", html_snippet, "</div>">>
    \o <<"</body></html>">>

(***************************************************************************)
(* Console messages and their normalisation.  A message is a sequence of   *)
(* tokens: text, one whitespace character, a number, a line:column         *)
(* locator, or the session's uuid.                                         *)
(***************************************************************************)
Txt(x) == [k |-> "txt", s |-> x, n |-> 0, c |-> 0]
Sp == [k |-> "ws", s |-> " ", n |-> 0, c |-> 0]
Num(x) == [k |-> "num", s |-> "", n |-> x, c |-> 0]
LC(line, col) == [k |-> "lc", s |-> "", n |-> line, c |-> col]
Uuid(u) == [k |-> "uuid", s |-> "", n |-> u, c |-> 0]

base_url == <<Txt("http://localhost:8080")>>
\* f"{base_url}/?snippet_id={uniqueid}"
full_url(uniqueid) == base_url \o <<Txt("/?snippet_id="), Uuid(uniqueid)>>
\* "generated_scrit: "
generated_scrit == <<Txt("generated_scrit:"), Sp>>

\* str.strip()
RECURSIVE LStrip(_)
LStrip(m) == IF m # <<>> /\ Head(m).k = "ws" THEN LStrip(Tail(m)) ELSE m
RECURSIVE RStrip(_)
RStrip(m) ==
    IF m # <<>> /\ m[Len(m)].k = "ws" THEN RStrip(SubSeq(m, 1, Len(m) - 1)) ELSE m
Strip(m) == RStrip(LStrip(m))

\* re.search(r'\s*(\d+):(\d+)', m): the index of the first locator, 0 when none
FirstLocator(m) ==
    IF \E i \in 1..Len(m) : m[i].k = "lc"
    THEN CHOOSE i \in 1..Len(m) : m[i].k = "lc" /\ \A j \in 1..(i - 1) : m[j].k # "lc"
    ELSE 0

\* mutant: the span ends at the line it starts at
LineSpanSameLine(line, col) ==
    <<Txt("line: "), Num(line), Txt(" to "), Num(line), Txt(" column: "), Num(col)>>

\* f'line: {adjusted_line} column: {column}' with
\* adjusted_line = str(line) + " to " + str(line + 1)
LineSpan(line, col) ==
    <<Txt("line: "), Num(line), Txt(" to "), Num(line + 1), Txt(" column: "), Num(col)>>

\* the whitespace run at the head of m
RECURSIVE LeadingWs(_)
LeadingWs(m) == IF m # <<>> /\ Head(m).k = "ws" THEN 1 + LeadingWs(Tail(m)) ELSE 0

\* re.sub(pattern, repl, m): every match of \s*\d+:\d+ becomes repl
RECURSIVE Sub(_, _)
Sub(m, repl) ==
    IF m = <<>> THEN <<>>
    ELSE LET w == LeadingWs(m)
         IN  IF w < Len(m) /\ m[w + 1].k = "lc"
             THEN repl \o Sub(SubSeq(m, w + 2, Len(m)), repl)
             ELSE <<Head(m)>> \o Sub(Tail(m), repl)

adjust_error_line_number(error_message) ==
    LET match == FirstLocator(error_message)
        is_local_script ==
            \E i \in 1..Len(error_message) : error_message[i] = Txt("generated_scrit:")
    IN  IF match # 0 /\ is_local_script
        THEN Sub(error_message,
                 LineSpan(error_message[match].n, error_message[match].c))
        ELSE error_message

\* mutant: the first locator of a message that is not local is rewritten too
ErrorMessageRewritesAll(message, uniqueid) ==
    LET replaced ==
            Strip(Replace(Replace(message, full_url(uniqueid), generated_scrit),
                          base_url, <<>>))
        match == FirstLocator(replaced)
    IN  IF match # 0
        THEN Sub(replaced, LineSpan(replaced[match].n, replaced[match].c))
        ELSE replaced

\* lines 234-240 of test(): the message appended to errors for one entry
ErrorMessage(message, uniqueid) ==
    LET is_from_local_script == Contains(message, full_url(uniqueid))
        replaced ==
            Strip(Replace(Replace(message, full_url(uniqueid), generated_scrit),
                          base_url, <<>>))
    IN  IF is_from_local_script THEN adjust_error_line_number(replaced) ELSE replaced

\* mutant: only SEVERE entries count
IsSevereOnly(log) == log.level = "SEVERE"

\* log["level"] == "SEVERE" or log["level"] == "ERROR"
IsErrorLevel(log) == log.level = "SEVERE" \/ log.level = "ERROR"

\* the body of `for log in logs`: the messages appended to errors, in order
RECURSIVE CollectErrors(_, _)
CollectErrors(logs, uniqueid) ==
    IF logs = <<>> THEN <<>>
    ELSE (IF IsErrorLevel(Head(logs))
          THEN <<ErrorMessage(Head(logs).message, uniqueid)>> ELSE <<>>)
         \o CollectErrors(Tail(logs), uniqueid)

\* what the browser of the session minted as uniqueid may log
Entry(level, message) == [level |-> level, message |-> message]
LogEntries(uniqueid) ==
    { Entry("INFO", <<Txt("ready")>>),
      Entry("WARNING", base_url \o <<Txt("/chart.js"), Sp, LC(3, 1)>>),
      Entry("ERROR", base_url \o <<Txt("/dashboard_javascript.js"), Sp, LC(12, 5), Sp>>),
      Entry("SEVERE", full_url(uniqueid) \o <<Sp, LC(387, 17), Sp, Txt("Uncaught")>>) }
BrowserLogs(uniqueid) == SeqsUpTo(LogEntries(uniqueid), MaxLogLen)
\* console messages put together from pieces: the URL of the session, the URL of
\* another session, the URL of a script, a blank, two locators and a word
Pieces(uniqueid) ==
    { full_url(uniqueid), full_url(uniqueid + 1), base_url \o <<Txt("/chart.js")>>,
      <<Sp>>, <<LC(387, 17)>>, <<LC(12, 5)>>, <<Txt("Uncaught")>> }
\* a locator is a whole run of digits:digits, so none follows a locator or a
\* uuid (which may end in a digit) without a separator
Messages(uniqueid) ==
    {m \in {Concat(ps) : ps \in SeqsUpTo(Pieces(uniqueid), MaxPieces)} :
        \A i \in 2..Len(m) : m[i].k = "lc" => m[i - 1].k \notin {"lc", "uuid"}}

\* a console that is empty or holds the one SEVERE entry
FewLogs(uniqueid) ==
    {<<>>} \cup {<<e>> : e \in {x \in LogEntries(uniqueid) : x.level = "SEVERE"}}

(***************************************************************************)
(* Intercepted requests.  A request is known by the markers its URL        *)
(* contains, its snippet_id query parameter (0: absent or empty) and the   *)
(* statements sqlparse.parse finds in its body.                            *)
(***************************************************************************)
Markers == {"snippet_id", "dashboard_javascript.js", "chart.js", "fetchData"}
NoParam == 0
Request(url, snippet_id, body) == [url |-> url, snippet_id |-> snippet_id, body |-> body]
Bodies == {<<>>} \cup {<<st>> : st \in Statements}
\* requests whose URL contains snippet_id, alone or with every other marker
PageRequests ==
    {Request(u \cup {"snippet_id"}, k, <<>>) :
        u \in {{}, Markers}, k \in 0..(MaxCalls + 1)}
\* requests without snippet_id in the URL: every mix of the other markers, and
\* every body for a data fetch
OtherRequests ==
    {Request(u, NoParam, <<>>) : u \in SUBSET (Markers \ {"snippet_id"})}
    \cup {Request({"fetchData"}, NoParam, b) : b \in Bodies}
Requests == PageRequests \cup OtherRequests

\* request.create_response(status_code, headers, body)
Response(status_code, content_type, body) ==
    [status_code |-> status_code, content_type |-> content_type, body |-> body]
NoContentType == "none"

(***************************************************************************)
(* State.                                                                  *)
(***************************************************************************)
VARIABLES
    \* HtmlTester
    snippets_map,             \* uniqueid -> html
    current_snippet,
    driver,                   \* self.driver
    max_wait_time_seconds,    \* in tenths of a second
    \* the frame of each task's test() call
    pc, uniqueid, success, errors, attempts, logs,
    exc,                      \* the exception the call is unwinding with
    \* the world outside the tester
    minted,                   \* uuids handed out by uuid.uuid4()
    running,                  \* the task the event loop is running
    bstate,                   \* browser -> "absent" | "open" | "quit"
    request_interceptor,      \* browser -> whether the interceptor is installed
    navs,                     \* browser -> number of driver.get calls
    readBy,                   \* browser -> the calls that read its console log
    quitBy,                   \* browser -> the calls that quit it, in order
    handled,                  \* the last intercepted request and its outcome
    full_html_snippet_file,   \* the diagnostic file the interceptor writes
    applied,                  \* the last direct call of a method and its result
    \* history of each task's current call
    mine,                     \* the browser the call acquired, 0 if none
    reads,                    \* get_log calls that returned
    slept,                    \* asyncio.sleep(split) calls made
    errorsRead                \* ERROR/SEVERE entries read

tester == <<snippets_map, current_snippet, driver, max_wait_time_seconds>>
frame == <<pc, uniqueid, success, errors, attempts, logs, exc>>
browsers == <<bstate, request_interceptor, navs, readBy, quitBy>>
router == <<handled, full_html_snippet_file>>
direct == <<applied>>
history == <<mine, reads, slept, errorsRead>>
vars == <<tester, frame, browsers, router, direct, history, minted, running>>

NoFile == <<>>
NothingHandled == <<>>
NothingApplied == <<>>

Init ==
    /\ snippets_map = <<>>
    /\ current_snippet = NoHtml
    /\ driver = NoDriver
    /\ max_wait_time_seconds \in Budgets
    /\ pc = [t \in Tasks |-> "idle"]
    /\ uniqueid = [t \in Tasks |-> 0]
    /\ success = [t \in Tasks |-> TRUE]
    /\ errors = [t \in Tasks |-> <<>>]
    /\ attempts = [t \in Tasks |-> 0]
    /\ logs = [t \in Tasks |-> <<>>]
    /\ exc = [t \in Tasks |-> "none"]
    /\ minted = 0
    /\ running = NoTask
    /\ bstate = [b \in Browsers |-> "absent"]
    /\ request_interceptor = [b \in Browsers |-> FALSE]
    /\ navs = [b \in Browsers |-> 0]
    /\ readBy = [b \in Browsers |-> {}]
    /\ quitBy = [b \in Browsers |-> <<>>]
    /\ handled = NothingHandled
    /\ full_html_snippet_file = NoFile
    /\ applied = NothingApplied
    /\ mine = [t \in Tasks |-> 0]
    /\ reads = [t \in Tasks |-> 0]
    /\ slept = [t \in Tasks |-> 0]
    /\ errorsRead = [t \in Tasks |-> 0]

(***************************************************************************)
(* HtmlTester.interceptor.  snippets_map is the sequence of the snippets   *)
(* registered so far: uuid k is the k-th minted, so snippets_map[k] is the *)
(* entry under key k.                                                      *)
(***************************************************************************)
Raised(e) == [raised |-> e, responses |-> <<>>, file |-> NoFile]
Responded(r) == [raised |-> "none", responses |-> <<r>>, file |-> NoFile]

\* mutant: the page is composed from the snippet registered last
SnippetBranchLatest(request, map) ==
    IF request.snippet_id = NoParam
    THEN Raised("Exception: no snippet_id found in the request url")
    ELSE IF request.snippet_id \notin DOMAIN map
    THEN Raised("KeyError")
    ELSE LET full_html_snippet ==
                 prepare_html_snippet(map[Len(map)].html,
                                      <<dashboard_script, chart_library_script>>)
         IN  [raised |-> "none",
              responses |-> <<Response(200, "text/html", full_html_snippet)>>,
              file |-> full_html_snippet]

\* lines 157-178: the branch for a URL that contains snippet_id
SnippetBranch(request, map) ==
    IF request.snippet_id = NoParam
    THEN Raised("Exception: no snippet_id found in the request url")
    ELSE IF request.snippet_id \notin DOMAIN map
    THEN Raised("KeyError")
    ELSE LET full_html_snippet ==
                 prepare_html_snippet(map[request.snippet_id].html,
                                      <<dashboard_script, chart_library_script>>)
         IN  [raised |-> "none",
              responses |-> <<Response(200, "text/html", full_html_snippet)>>,
              file |-> full_html_snippet]

\* lines 191-197: the branch for a URL that contains fetchData
FetchDataBranch(request) ==
    IF request.body = <<>>
    THEN Raised("IndexError")
    ELSE Responded(Response(200, "text/csv", fake_fetch_csv_response(request.body[1])))

\* mutant: chart.js is matched before dashboard_javascript.js
interceptorChartFirst(request, map) ==
    IF "snippet_id" \in request.url THEN SnippetBranch(request, map)
    ELSE IF "chart.js" \in request.url
    THEN Responded(Response(200, "text/javascript", chart_library_script.content))
    ELSE IF "dashboard_javascript.js" \in request.url
    THEN Responded(Response(200, "text/javascript", dashboard_script.content))
    ELSE IF "fetchData" \in request.url THEN FetchDataBranch(request)
    ELSE Responded(Response(200, NoContentType, <<>>))

\* mutant: an unknown snippet id is served an empty page
interceptorDefaultPage(request, map) ==
    IF "snippet_id" \in request.url
    THEN IF request.snippet_id \in DOMAIN map
         THEN SnippetBranch(request, map)
         ELSE Responded(Response(200, "text/html", <<>>))
    ELSE IF "dashboard_javascript.js" \in request.url
    THEN Responded(Response(200, "text/javascript", dashboard_script.content))
    ELSE IF "chart.js" \in request.url
    THEN Responded(Response(200, "text/javascript", chart_library_script.content))
    ELSE IF "fetchData" \in request.url THEN FetchDataBranch(request)
    ELSE Responded(Response(200, NoContentType, <<>>))

interceptor(request, map) ==
    IF "snippet_id" \in request.url THEN SnippetBranch(request, map)
    ELSE IF "dashboard_javascript.js" \in request.url
    THEN Responded(Response(200, "text/javascript", dashboard_script.content))
    ELSE IF "chart.js" \in request.url
    THEN Responded(Response(200, "text/javascript", chart_library_script.content))
    ELSE IF "fetchData" \in request.url THEN FetchDataBranch(request)
    ELSE Responded(Response(200, NoContentType, <<>>))

\* a browser whose interceptor is installed sends a request
Intercept(request) ==
    /\ \E b \in Browsers : bstate[b] = "open" /\ request_interceptor[b]
    /\ LET out == interceptor(request, snippets_map)
       IN  /\ handled' = <<[request |-> request, raised |-> out.raised,
                            responses |-> out.responses]>>
           /\ full_html_snippet_file' =
                  IF out.file # NoFile THEN out.file ELSE full_html_snippet_file
    /\ UNCHANGED <<tester, frame, browsers, direct, history, minted, running>>

(***************************************************************************)
(* Python float arithmetic, as far as lines 226-228 use it: a float is an  *)
(* IEEE 754 double, (-1)^neg * m * 2^e with a 53-bit m held as three limbs *)
(* of 17, 18 and 18 bits (m = m[1]*Limb^2 + m[2]*Limb + m[3]), or zero;    *)
(* division and multiplication round to nearest, ties to even.            *)
(***************************************************************************)
Limb == 2^18
TopBits == 17
MantissaBits == 53
GuardBits == 8

\* the number of bits of a positive int
BitLen(k) == CHOOSE i \in 1..30 : 2^(i - 1) <= k /\ k < 2^i

FZero(neg) == [neg |-> neg, m |-> <<0, 0, 0>>, e |-> 0]
IsZero(a) == a.m = <<0, 0, 0>>

\* the double nearest to (-1)^neg * (w[1]*Limb^2 + w[2]*Limb + w[3] + tail) * 2^e,
\* where 0 < tail < 1 when sticky and w[1] has at least TopBits bits
Round(neg, w, sticky, e) ==
    LET shift == BitLen(w[1]) - TopBits
        p == 2^shift
        top == w[1] \div p
        mid == w[2] \div p + (w[1] % p) * (Limb \div p)
        low == w[3] \div p + (w[2] % p) * (Limb \div p)
        dropped == w[3] % p
        up == /\ shift >= 1
              /\ \/ 2 * dropped > p
                 \/ 2 * dropped = p /\ (sticky \/ low % 2 = 1)
        low1 == IF up THEN low + 1 ELSE low
        mid1 == mid + low1 \div Limb
        top1 == top + mid1 \div Limb
    IN  IF top1 = 2^TopBits
        THEN [neg |-> neg, m |-> <<2^(TopBits - 1), 0, 0>>, e |-> e + shift + 1]
        ELSE [neg |-> neg, m |-> <<top1, mid1 % Limb, low1 % Limb>>, e |-> e + shift]

\* float(k) of an int k of at most TopBits bits
FromInt(k) ==
    LET abs == IF k < 0 THEN -k ELSE k
    IN  IF k = 0 THEN FZero(FALSE)
        ELSE [neg |-> k < 0,
              m |-> <<abs * 2^(TopBits - BitLen(abs)), 0, 0>>,
              e |-> BitLen(abs) - MantissaBits]

\* a / d for a float a and an int d in 1..128
FDiv(a, d) ==
    LET g == 2^GuardBits
        top == a.m[1] * g + a.m[2] \div (Limb \div g)
        mid == (a.m[2] % (Limb \div g)) * g + a.m[3] \div (Limb \div g)
        low == (a.m[3] % (Limb \div g)) * g
        r1 == top % d
        r2 == (r1 * Limb + mid) % d
        r3 == (r2 * Limb + low) % d
    IN  IF IsZero(a) THEN a
        ELSE Round(a.neg,
                   <<top \div d, (r1 * Limb + mid) \div d, (r2 * Limb + low) \div d>>,
                   r3 # 0, a.e - GuardBits)

\* c * a for a small int c >= 0 and a float a
FMul(c, a) ==
    LET low == a.m[3] * c
        mid == a.m[2] * c + low \div Limb
        top == a.m[1] * c + mid \div Limb
    IN  IF c = 0 \/ IsZero(a) THEN FZero(a.neg)
        ELSE Round(a.neg, <<top, mid % Limb, low % Limb>>, FALSE, a.e)

\* |a| < |b|
MagLess(a, b) ==
    IF IsZero(b) THEN FALSE
    ELSE IF IsZero(a) THEN TRUE
    ELSE IF a.e # b.e THEN a.e < b.e
    ELSE \E i \in 1..3 : a.m[i] < b.m[i] /\ \A j \in 1..(i - 1) : a.m[j] = b.m[j]

\* a < b
FLess(a, b) ==
    IF IsZero(a) /\ IsZero(b) THEN FALSE
    ELSE IF a.neg /\ ~IsZero(a)
         THEN IF b.neg /\ ~IsZero(b) THEN MagLess(b, a) ELSE TRUE
         ELSE IF b.neg /\ ~IsZero(b) THEN FALSE ELSE MagLess(a, b)

(***************************************************************************)
(* HtmlTester.test, one action per step.                                   *)
(***************************************************************************)
\* line 226: total_wait_time, the number each budget stands for as a float
total_wait_time == [tenths \in Budgets |-> FDiv(FromInt(tenths), 10)]
\* line 227
split == [tenths \in Budgets |-> FDiv(total_wait_time[tenths], Samples)]

\* line 228: attempts*split < total_wait_time, for every budget and every value
\* attempts takes (the comparison fails at Samples + 1 at the latest)
within_wait_time ==
    [tenths \in Budgets |->
        [n \in 0..(Samples + 1) |->
            FLess(FMul(n, split[tenths]), total_wait_time[tenths])]]

\* mutant: the console is read once before the budget is looked at
LoopConditionReadFirst(errs, n, tenths) ==
    Len(errs) = 0 /\ (n = 0 \/ within_wait_time[tenths][n])

\* mutant: the loop does not stop on errors
LoopConditionNoShortCircuit(errs, n, tenths) == within_wait_time[tenths][n]

\* line 228
LoopCondition(errs, n, tenths) == Len(errs) = 0 /\ within_wait_time[tenths][n]

\* mutant: a call stores its snippet over the entry registered last
CallOverwrites(t, html) ==
    /\ running = NoTask
    /\ pc[t] \in {"idle", "done"}
    /\ minted < MaxCalls
    /\ current_snippet' = html
    /\ minted' = minted + 1
    /\ LET key == IF snippets_map = <<>> THEN 1 ELSE Len(snippets_map)
       IN  /\ uniqueid' = [uniqueid EXCEPT ![t] = key]
           /\ snippets_map' =
                  IF snippets_map = <<>>
                  THEN <<[html |-> html, uniqueid |-> key]>>
                  ELSE [snippets_map EXCEPT ![key] = [html |-> html, uniqueid |-> key]]
    /\ success' = [success EXCEPT ![t] = TRUE]
    /\ errors' = [errors EXCEPT ![t] = <<>>]
    /\ attempts' = [attempts EXCEPT ![t] = 0]
    /\ logs' = [logs EXCEPT ![t] = <<>>]
    /\ exc' = [exc EXCEPT ![t] = "none"]
    /\ mine' = [mine EXCEPT ![t] = 0]
    /\ reads' = [reads EXCEPT ![t] = 0]
    /\ slept' = [slept EXCEPT ![t] = 0]
    /\ errorsRead' = [errorsRead EXCEPT ![t] = 0]
    /\ pc' = [pc EXCEPT ![t] = "acquire"]
    /\ running' = t
    /\ UNCHANGED <<driver, max_wait_time_seconds, browsers, router, direct>>

\* lines 206-217
Call(t, html) ==
    /\ running = NoTask
    /\ pc[t] \in {"idle", "done"}
    /\ minted < MaxCalls
    /\ current_snippet' = html
    /\ minted' = minted + 1
    /\ uniqueid' = [uniqueid EXCEPT ![t] = minted + 1]
    /\ snippets_map' = Append(snippets_map, [html |-> html, uniqueid |-> minted + 1])
    /\ success' = [success EXCEPT ![t] = TRUE]
    /\ errors' = [errors EXCEPT ![t] = <<>>]
    /\ attempts' = [attempts EXCEPT ![t] = 0]
    /\ logs' = [logs EXCEPT ![t] = <<>>]
    /\ exc' = [exc EXCEPT ![t] = "none"]
    /\ mine' = [mine EXCEPT ![t] = 0]
    /\ reads' = [reads EXCEPT ![t] = 0]
    /\ slept' = [slept EXCEPT ![t] = 0]
    /\ errorsRead' = [errorsRead EXCEPT ![t] = 0]
    /\ pc' = [pc EXCEPT ![t] = "acquire"]
    /\ running' = t
    /\ UNCHANGED <<driver, max_wait_time_seconds, browsers, router, direct>>

\* an exception leaves the try block for the finally clause
Raise(t, e) ==
    /\ exc' = [exc EXCEPT ![t] = e]
    /\ pc' = [pc EXCEPT ![t] = "finally"]

\* line 219: webdriver.Chrome(...) returns a new browser
Acquire(t) ==
    /\ running = t /\ pc[t] = "acquire"
    /\ bstate' = [bstate EXCEPT ![uniqueid[t]] = "open"]
    /\ driver' = uniqueid[t]
    /\ mine' = [mine EXCEPT ![t] = uniqueid[t]]
    /\ pc' = [pc EXCEPT ![t] = "install"]
    /\ UNCHANGED <<snippets_map, current_snippet, max_wait_time_seconds, uniqueid,
                   success, errors, attempts, logs, exc, request_interceptor, navs,
                   readBy, quitBy, router, direct, reads, slept, errorsRead,
                   minted, running>>

\* line 219: webdriver.Chrome(...) raises, self.driver is not assigned
AcquireFails(t) ==
    /\ running = t /\ pc[t] = "acquire"
    /\ Raise(t, "SessionNotCreatedException")
    /\ UNCHANGED <<tester, uniqueid, success, errors, attempts, logs, browsers, router, direct,
                   history, minted, running>>

\* mutant: the interceptor is not installed before the navigation
InstallSkipped(t) ==
    /\ running = t /\ pc[t] = "install"
    /\ pc' = [pc EXCEPT ![t] = "navigate"]
    /\ UNCHANGED <<tester, uniqueid, success, errors, attempts, logs, exc, browsers,
                   router, direct, history, minted, running>>

\* line 220
Install(t) ==
    /\ running = t /\ pc[t] = "install"
    /\ request_interceptor' = [request_interceptor EXCEPT ![driver] = TRUE]
    /\ pc' = [pc EXCEPT ![t] = "navigate"]
    /\ UNCHANGED <<tester, uniqueid, success, errors, attempts, logs, exc, bstate, navs,
                   readBy, quitBy, router, direct, history, minted, running>>

\* line 221: driver.get(full_url) returns
Navigate(t) ==
    /\ running = t /\ pc[t] = "navigate"
    /\ navs' = [navs EXCEPT ![driver] = @ + 1]
    /\ pc' = [pc EXCEPT ![t] = "wait"]
    /\ UNCHANGED <<tester, uniqueid, success, errors, attempts, logs, exc, bstate,
                   request_interceptor, readBy, quitBy, router, direct, history, minted,
                   running>>

\* line 221: driver.get(full_url) raises
NavigateFails(t) ==
    /\ running = t /\ pc[t] = "navigate"
    /\ navs' = [navs EXCEPT ![driver] = @ + 1]
    /\ Raise(t, "WebDriverException in get")
    /\ UNCHANGED <<tester, uniqueid, success, errors, attempts, logs, bstate,
                   request_interceptor, readBy, quitBy, router, direct, history, minted,
                   running>>

\* lines 222-227: readyState is complete within the 10 seconds
WaitLoad(t) ==
    /\ running = t /\ pc[t] = "wait"
    /\ attempts' = [attempts EXCEPT ![t] = 0]
    /\ pc' = [pc EXCEPT ![t] = "loop"]
    /\ UNCHANGED <<tester, uniqueid, success, errors, logs, exc, browsers, router, direct,
                   history, minted, running>>

\* mutant: a first load timeout navigates again instead of raising
WaitLoadTimeoutRetry(t) ==
    /\ running = t /\ pc[t] = "wait"
    /\ IF navs[driver] < 2
       THEN pc' = [pc EXCEPT ![t] = "navigate"] /\ exc' = exc
       ELSE Raise(t, "TimeoutException")
    /\ UNCHANGED <<tester, uniqueid, success, errors, attempts, logs, browsers, router, direct,
                   history, minted, running>>

\* lines 222-223: wait.until raises TimeoutException
WaitLoadTimeout(t) ==
    /\ running = t /\ pc[t] = "wait"
    /\ Raise(t, "TimeoutException")
    /\ UNCHANGED <<tester, uniqueid, success, errors, attempts, logs, browsers, router, direct,
                   history, minted, running>>

\* line 228
LoopTest(t) ==
    /\ running = t /\ pc[t] = "loop"
    /\ pc' = [pc EXCEPT ![t] =
                 IF LoopCondition(errors[t], attempts[t], max_wait_time_seconds)
                 THEN "read" ELSE "finally"]
    /\ UNCHANGED <<tester, uniqueid, success, errors, attempts, logs, exc, browsers,
                   router, direct, history, minted, running>>

\* lines 229-245: get_log returns lg; the entries are filtered and normalised,
\* attempts is incremented and the coroutine suspends in asyncio.sleep(split)
ReadLog(t, lg) ==
    /\ running = t /\ pc[t] = "read"
    /\ bstate[driver] = "open"
    /\ logs' = [logs EXCEPT ![t] = lg]
    /\ readBy' = [readBy EXCEPT ![driver] = @ \cup {uniqueid[t]}]
    /\ errors' = [errors EXCEPT ![t] = @ \o CollectErrors(lg, uniqueid[t])]
    /\ success' = [success EXCEPT ![t] =
                      IF \E i \in 1..Len(lg) : IsErrorLevel(lg[i]) THEN FALSE ELSE @]
    /\ attempts' = [attempts EXCEPT ![t] = @ + 1]
    /\ reads' = [reads EXCEPT ![t] = @ + 1]
    /\ errorsRead' = [errorsRead EXCEPT ![t] =
                         @ + Len(SelectSeq(lg, LAMBDA e : e.level \in {"ERROR", "SEVERE"}))]
    /\ slept' = [slept EXCEPT ![t] = @ + 1]
    /\ pc' = [pc EXCEPT ![t] = "sleeping"]
    /\ running' = NoTask
    /\ UNCHANGED <<tester, uniqueid, exc, bstate, request_interceptor, navs, quitBy,
                   router, direct, mine, minted>>

\* line 229: get_log raises (always, when the browser was quit)
ReadLogFails(t) ==
    /\ running = t /\ pc[t] = "read"
    /\ Raise(t, "WebDriverException in get_log")
    /\ UNCHANGED <<tester, uniqueid, success, errors, attempts, logs, browsers, router, direct,
                   history, minted, running>>

\* line 245: the sleep is over and the event loop resumes the coroutine
Wake(t) ==
    /\ running = NoTask /\ pc[t] = "sleeping"
    /\ running' = t
    /\ pc' = [pc EXCEPT ![t] = "loop"]
    /\ UNCHANGED <<tester, uniqueid, success, errors, attempts, logs, exc, browsers,
                   router, direct, history, minted>>

\* mutant: the finally clause quits nothing
QuitNothing(t) == UNCHANGED <<bstate, quitBy>>

\* lines 248-249: if(self.driver): self.driver.quit()
QuitDriver(t) ==
    IF driver # NoDriver
    THEN /\ bstate' = [bstate EXCEPT ![driver] = "quit"]
         /\ quitBy' = [quitBy EXCEPT ![driver] = Append(@, uniqueid[t])]
    ELSE UNCHANGED <<bstate, quitBy>>

\* lines 247-251: the finally clause, then the return of (success, errors) or the
\* exception going on to the caller
Finally(t) ==
    /\ running = t /\ pc[t] = "finally"
    /\ QuitDriver(t)
    /\ pc' = [pc EXCEPT ![t] = "done"]
    /\ running' = NoTask
    /\ UNCHANGED <<tester, uniqueid, success, errors, attempts, logs, exc,
                   request_interceptor, navs, readBy, router, direct, history, minted>>

\* what the caller got from the call of task t
Returned(t) == pc[t] = "done" /\ exc[t] = "none"
Propagated(t) == pc[t] = "done" /\ exc[t] # "none"

(***************************************************************************)
(* The methods of the tester called on their own, one call a behaviour.    *)
(***************************************************************************)
Applied(op, args, result) == [op |-> op, args |-> args, result |-> result]

\* prepare_html_snippet(html_snippet, scripts)
Compose(html_snippet, scripts) ==
    /\ applied = NothingApplied
    /\ applied' = Applied("prepare_html_snippet", <<html_snippet, scripts>>,
                          prepare_html_snippet(html_snippet, scripts))
    /\ UNCHANGED <<tester, frame, browsers, router, history, minted, running>>

\* lines 230-243 for one console entry of the session whose uuid is uid
Normalise(entry, uid) ==
    /\ applied = NothingApplied
    /\ applied' = Applied("errors", <<entry, uid>>, CollectErrors(<<entry>>, uid))
    /\ UNCHANGED <<tester, frame, browsers, router, history, minted, running>>

\* get_column_names(statement)
ColumnNames(statement) ==
    /\ applied = NothingApplied
    /\ applied' = Applied("get_column_names", <<statement>>,
                          get_column_names(statement))
    /\ UNCHANGED <<tester, frame, browsers, router, history, minted, running>>

(***************************************************************************)
(* Specifications.                                                         *)
(***************************************************************************)
\* the steps of a call other than reading the console log
ControlStep(t) ==
    \/ Acquire(t) \/ AcquireFails(t)
    \/ Install(t)
    \/ Navigate(t) \/ NavigateFails(t)
    \/ WaitLoad(t) \/ WaitLoadTimeout(t)
    \/ LoopTest(t)
    \/ Finally(t)

\* the steps of a call that the polling loop adds, but for the read itself
PollStep(t) ==
    \/ ReadLogFails(t)
    \/ Wake(t)

\* get_log returns any list the browser's console may hold
ReadAnyLog(t) == pc[t] = "read" /\ \E lg \in BrowserLogs(driver) : ReadLog(t, lg)

\* get_log returns an empty list or the one SEVERE entry
ReadFewLog(t) == pc[t] = "read" /\ \E lg \in FewLogs(driver) : ReadLog(t, lg)

\* one caller awaiting its test() calls one after the other
Next ==
    \E t \in SeqTasks :
        \/ Call(t, AnHtml)
        \/ ControlStep(t)
        \/ PollStep(t)
        \/ ReadAnyLog(t)

Spec == Init /\ [][Next]_vars

\* one caller whose browsers log nothing or the one SEVERE entry
NextFair ==
    \E t \in SeqTasks :
        \/ Call(t, AnHtml)
        \/ ControlStep(t)
        \/ PollStep(t)
        \/ ReadFewLog(t)

\* a call that has started runs on: the event loop resumes a sleeping coroutine
\* and every driver call returns or raises
FairSpec ==
    /\ Init /\ [][NextFair]_vars
    /\ \A t \in SeqTasks : WF_vars(ControlStep(t) \/ PollStep(t) \/ ReadFewLog(t))

\* two callers on the same tester, interleaved at the polling sleeps
NextConc ==
    \E t \in Tasks :
        \/ Call(t, AnHtml)
        \/ ControlStep(t)
        \/ PollStep(t)
        \/ ReadFewLog(t)

SpecConc == Init /\ [][NextConc]_vars

\* one caller on a tester without wait budget, with the requests of its browsers
\* intercepted
InitRouter == Init /\ max_wait_time_seconds = 0

NextRouter ==
    \/ \E t \in SeqTasks :
          \/ \E html \in Htmls : Call(t, html)
          \/ ControlStep(t)
    \/ \E request \in Requests : Intercept(request)

SpecRouter == InitRouter /\ [][NextRouter]_vars

\* get_log returns the one SEVERE entry
ReadSevereLog(t) ==
    pc[t] = "read" /\ \E lg \in FewLogs(driver) \ {<<>>} : ReadLog(t, lg)

\* two callers on the same tester, interleaved at the polling sleeps, each with a
\* snippet of its own that loads and logs an error, and the page requests of
\* their browsers intercepted
InitConcRouter == Init /\ max_wait_time_seconds = 9

NextConcRouter ==
    \/ \E t \in Tasks :
          \/ \E html \in Htmls : Call(t, html)
          \/ Acquire(t) \/ Install(t) \/ Navigate(t) \/ WaitLoad(t)
          \/ LoopTest(t) \/ ReadSevereLog(t) \/ Wake(t)
          \/ Finally(t)
    \/ \E request \in PageRequests : Intercept(request)

SpecConcRouter == InitConcRouter /\ [][NextConcRouter]_vars

\* the methods called on their own, with every input of the bounded sets
NextDirect ==
    \/ \E html \in Htmls, scripts \in SeqsUpTo(Scripts, MaxScripts) :
          Compose(html, scripts)
    \/ \E lv \in {"SEVERE", "INFO"}, msg \in Messages(1) :
          Normalise(Entry(lv, msg), 1)
    \/ \E statement \in Statements : ColumnNames(statement)

SpecDirect == InitRouter /\ [][NextDirect]_vars

(***************************************************************************)
(* Properties.                                                             *)
(***************************************************************************)
Range(q) == {q[i] : i \in 1..Len(q)}
ErrorEntries(lg) == SelectSeq(lg, LAMBDA e : e.level \in {"ERROR", "SEVERE"})
InCall(t) == pc[t] \notin {"idle", "done"}

\* C1, safety part: a call that acquired a browser and has returned or propagated
\* has quit that very browser
ReleasedOnExit ==
    \A t \in Tasks :
        (pc[t] = "done" /\ mine[t] # 0) =>
            (bstate[mine[t]] = "quit" /\ uniqueid[t] \in Range(quitBy[mine[t]]))

\* C1: on every exit path of test() -- normal return, with or without errors, an
\* exception of driver.get, a load timeout, an exception of get_log -- the browser
\* the call acquired is quit by that call before the call is over, and every call
\* that has started is eventually over
C1_BrowserReleasedOnEveryPath ==
    /\ []ReleasedOnExit
    /\ \A t \in SeqTasks : InCall(t) ~> (pc[t] = "done")

\* a call that read the console, had get_log raise on a later read, and is over
\* with its browser quit
C1_Witness ==
    \E t \in SeqTasks :
        /\ pc[t] = "done" /\ exc[t] = "WebDriverException in get_log"
        /\ reads[t] > 0 /\ mine[t] # 0 /\ bstate[mine[t]] = "quit"

\* C2, state part: of a returned result, success is false exactly when an
\* ERROR/SEVERE entry was read, and true exactly when errors is empty
VerdictMatchesErrors ==
    \A t \in Tasks :
        Returned(t) =>
            /\ (success[t] = FALSE) <=> (errorsRead[t] > 0)
            /\ (success[t] = TRUE) <=> (errors[t] = <<>>)

\* C2, step part: a read that returns no ERROR/SEVERE entry (INFO and WARNING
\* entries only, or none) leaves success and errors as they were
OtherLevelsIgnored ==
    \A t \in Tasks :
        (reads'[t] = reads[t] + 1 /\ ErrorEntries(logs'[t]) = <<>>) =>
            (success'[t] = success[t] /\ errors'[t] = errors[t])

\* C2: success is false iff an ERROR/SEVERE entry was read during polling, which
\* is iff errors is not empty; INFO and WARNING entries change neither
C2_SuccessIffNoErrorEntry ==
    /\ []VerdictMatchesErrors
    /\ [][OtherLevelsIgnored]_vars

\* a call returned success although its last read held an INFO and a WARNING entry
C2_Witness ==
    \E t \in SeqTasks :
        /\ Returned(t) /\ success[t] /\ errors[t] = <<>>
        /\ \E i \in 1..Len(logs[t]) : logs[t][i].level = "INFO"
        /\ \E i \in 1..Len(logs[t]) : logs[t][i].level = "WARNING"

\* C3: with a positive budget T a call whose reads hold no ERROR/SEVERE entry reads
\* the console exactly 20 times, sleeps T/20 after each read (T in all) and returns
\* (True, []) only then
C3_CleanRunTakesWholeBudget ==
    \A t \in Tasks :
        /\ slept[t] = reads[t]
        /\ (Returned(t) /\ max_wait_time_seconds > 0 /\ errorsRead[t] = 0) =>
              /\ reads[t] = Samples
              /\ slept[t] = Samples
              /\ success[t] = TRUE /\ errors[t] = <<>>

\* C4, step part: after a read that held an ERROR/SEVERE entry the call never is
\* about to read, and makes no read
NoReadAfterError ==
    \A t \in Tasks :
        (errorsRead[t] > 0 /\ uniqueid'[t] = uniqueid[t]) =>
            (reads'[t] = reads[t] /\ pc'[t] # "read")

\* C4, state part: the errors of a returned failure are the normalised messages
\* of the ERROR/SEVERE entries of its last read, in the order of the log
ErrorsAreLastRead ==
    \A t \in Tasks :
        (Returned(t) /\ errorsRead[t] > 0) =>
            LET found == ErrorEntries(logs[t])
            IN  /\ Len(found) = errorsRead[t]
                /\ errors[t] = [i \in 1..Len(found) |->
                                   ErrorMessage(found[i].message, uniqueid[t])]

\* C4: polling stops at the first read that holds an ERROR/SEVERE entry, and the
\* errors returned are exactly the normalised messages of that read's
\* ERROR/SEVERE entries, in log order
C4_ShortCircuitOnFirstError ==
    /\ []ErrorsAreLastRead
    /\ [][NoReadAfterError]_vars

\* a call returned two errors, an ERROR entry before a SEVERE one, from its third read
C4_Witness ==
    \E t \in SeqTasks :
        /\ Returned(t) /\ reads[t] = 3 /\ Len(errors[t]) = 2
        /\ logs[t][1].level = "ERROR" /\ logs[t][2].level = "SEVERE"
        /\ errors[t][1] # errors[t][2]

\* C5: a call whose load wait timed out read no console log, navigated exactly
\* once, and ends with the timeout propagated (no result) and its browser quit
C5_LoadTimeoutIsFatal ==
    \A t \in Tasks :
        exc[t] = "TimeoutException" =>
            /\ pc[t] \in {"finally", "done"}
            /\ reads[t] = 0 /\ uniqueid[t] \notin readBy[mine[t]]
            /\ navs[mine[t]] = 1
            /\ pc[t] = "done" =>
                  (Propagated(t) /\ ~Returned(t) /\ bstate[mine[t]] = "quit")

\* a call is over with the load timeout propagated
C5_Witness ==
    \E t \in SeqTasks :
        /\ pc[t] = "done" /\ exc[t] = "TimeoutException"
        /\ mine[t] # 0 /\ bstate[mine[t]] = "quit" /\ navs[mine[t]] = 1

\* C6: in an interleaving of two calls, a call that acquired a browser reads the
\* console of that browser only and quits that browser only, and once the call is
\* over its browser is quit
C6_BrowserOwnedBySession ==
    \A t \in Tasks :
        mine[t] # 0 =>
            /\ \A b \in Browsers :
                  (uniqueid[t] \in readBy[b] \/ uniqueid[t] \in Range(quitBy[b])) =>
                      b = mine[t]
            /\ pc[t] = "done" => bstate[mine[t]] = "quit"

\* C7: in a sequence of calls every browser is quit at most once and only by the
\* call that acquired it, also when a later call fails to acquire its own
C7_ReleasedOnceByOwner ==
    \A b \in Browsers : Len(quitBy[b]) <= 1 /\ Range(quitBy[b]) \subseteq {b}

\* the outcome the dispatch rule prescribes for a request, given the registry
Handled == handled[1]
OneResponse(h, content_type, body) ==
    h.raised = "none" /\ h.responses = <<Response(200, content_type, body)>>
IsComposedPage(body) ==
    \E k \in DOMAIN snippets_map :
        body = prepare_html_snippet(snippets_map[k].html,
                                    <<dashboard_script, chart_library_script>>)

\* C8: a request is answered by the first rule that matches its URL -- snippet_id:
\* the composed page as text/html; dashboard_javascript.js: the dashboard script
\* as text/javascript; chart.js: the chart library as text/javascript; fetchData:
\* the synthetic CSV as text/csv; else an empty body -- and it either raises,
\* with no response, or gets exactly one response, of status 200
C8_FirstMatchingRule ==
    handled # NothingHandled =>
        LET h == Handled
            url == h.request.url
        IN  /\ \/ h.raised # "none" /\ h.responses = <<>>
               \/ h.raised = "none" /\ Len(h.responses) = 1
                  /\ h.responses[1].status_code = 200
            /\ IF "snippet_id" \in url
               THEN h.raised = "none" =>
                       /\ h.responses[1].content_type = "text/html"
                       /\ IsComposedPage(h.responses[1].body)
               ELSE IF "dashboard_javascript.js" \in url
               THEN OneResponse(h, "text/javascript", <<"dashboard_javascript_content">>)
               ELSE IF "chart.js" \in url
               THEN OneResponse(h, "text/javascript", <<"chart_library_content">>)
               ELSE IF "fetchData" \in url
               THEN h.raised = "none" =>
                       /\ h.responses[1].content_type = "text/csv"
                       /\ h.responses[1].body =
                              fake_fetch_csv_response(h.request.body[1])
               ELSE OneResponse(h, NoContentType, <<>>)

\* a request whose URL names both scripts got the dashboard script
C8_Witness ==
    /\ handled # NothingHandled
    /\ Handled.request.url = {"dashboard_javascript.js", "chart.js", "fetchData"}
    /\ Handled.responses = <<Response(200, "text/javascript", <<"dashboard_javascript_content">>)>>

\* C9: an interception of a request whose URL names snippet_id and whose id is
\* absent or not registered raises, creates no response, and leaves the registry
\* (and the diagnostic page) as it was
C9_UnknownSnippetRaises ==
    [][ (handled' # handled
          /\ "snippet_id" \in handled'[1].request.url
          /\ handled'[1].request.snippet_id \notin DOMAIN snippets_map)
        => /\ handled'[1].raised # "none"
           /\ handled'[1].responses = <<>>
           /\ snippets_map' = snippets_map
           /\ full_html_snippet_file' = full_html_snippet_file ]_vars

\* a request for an id that was not registered raised KeyError, with one snippet
\* registered
C9_Witness ==
    /\ handled # NothingHandled
    /\ Handled.raised = "KeyError" /\ Handled.responses = <<>>
    /\ Handled.request.snippet_id > Len(snippets_map)
    /\ Len(snippets_map) = 1

\* str.split(sep) of a token sequence
RECURSIVE SplitOn(_, _)
SplitOn(s, sep) ==
    IF \E i \in 1..Len(s) : s[i] = sep
    THEN LET i == CHOOSE j \in 1..Len(s) : s[j] = sep /\ \A m \in 1..(j - 1) : s[m] # sep
         IN  <<SubSeq(s, 1, i - 1)>> \o SplitOn(SubSeq(s, i + 1, Len(s)), sep)
    ELSE <<s>>

\* C10: the CSV for a statement with n extracted names is the header line of the
\* n names joined by commas (a blank line when n = 0), then exactly 3 rows, row i
\* being n+1 cells that all read i
C10_CsvShape ==
    (handled # NothingHandled /\ Handled.raised = "none"
       /\ Handled.responses[1].content_type = "text/csv") =>
        LET names == get_column_names(Handled.request.body[1])
            n == Len(names)
            lines == SplitOn(Handled.responses[1].body, "\n")
        IN  /\ Len(lines) = 3 + 2 /\ lines[3 + 2] = <<>>
            /\ IF n = 0 THEN lines[1] = <<>>
               ELSE SplitOn(lines[1], ",") = [j \in 1..n |-> <<names[j]>>]
            /\ \A i \in 0..2 :
                  SplitOn(lines[i + 2], ",") = [j \in 1..(n + 1) |-> <<Str(i)>>]

\* the CSV for the column list [a, b]
C10_Witness ==
    /\ handled # NothingHandled
    /\ Handled.request.body = <<StmtList>>
    /\ Handled.responses[1].body =
          <<"a", ",", "b", "\n", "0", ",", "0", ",", "0", "\n",
            "1", ",", "1", ",", "1", "\n", "2", ",", "2", ",", "2", "\n">>

\* the indices of the parts of a text that equal x, in order
Indices(text, x) == SelectSeq([i \in 1..Len(text) |-> i], LAMBDA i : text[i] = x)

\* C11: the page prepare_html_snippet composes holds exactly one <script src> tag
\* per supplied script, in the order supplied, each with the script's url and with
\* id equal to the script's name, and no script's content; the snippet body occurs
\* exactly once, as given, between <div> and </div>, after </head>
C11_OneTagPerScriptInOrder ==
    (applied # NothingApplied /\ applied.op = "prepare_html_snippet") =>
        LET html == applied.args[1]
            scripts == applied.args[2]
            page == applied.result
            tags == Indices(page, "<script src=")
            body == Indices(page, html)
        IN  /\ Len(tags) = Len(scripts)
            /\ \A k \in 1..Len(scripts) :
                  SubSeq(page, tags[k], tags[k] + 4) =
                      <<"<script src=", scripts[k].url, " id=", scripts[k].name,
                        "></script>">>
            /\ \A sc \in Scripts : \A i \in 1..Len(page) : <<page[i]>> # sc.content
            /\ Len(body) = 1
            /\ page[body[1] - 1] = "<div>" /\ page[body[1] + 1] = "</div>"
            /\ Indices(page, "</head>") # <<>>
            /\ \A i \in 1..Len(Indices(page, "</head>")) :
                  Indices(page, "</head>")[i] < body[1]

\* a page composed for the chart library, then the dashboard script, then the
\* chart library again
C11_Witness ==
    /\ applied # NothingApplied /\ applied.op = "prepare_html_snippet"
    /\ applied.args[2] = <<chart_library_script, dashboard_script, chart_library_script>>
    /\ Len(Indices(applied.result, "<script src=")) = 3
    /\ Len(Indices(applied.result, applied.args[1])) = 1

\* the entry and the session of a direct normalisation, and its outcome
Normalised == applied # NothingApplied /\ applied.op = "errors"
IsLocal == Contains(applied.args[1].message, full_url(applied.args[2]))

C13_ForeignMessageOnlyStripped ==
    (Normalised /\ IsErrorLevel(applied.args[1]) /\ ~IsLocal) =>
        LET msg == applied.args[1].message
            out == applied.result[1]
        IN  /\ Len(applied.result) = 1
            /\ out = Strip(SelectSeq(msg, LAMBDA x : <<x>> # base_url))
            /\ SelectSeq(out, LAMBDA x : x.k = "lc")
                   = SelectSeq(msg, LAMBDA x : x.k = "lc")
            /\ \A i \in 1..Len(out) : out[i] # Txt("line: ")

\* the message " <base>/chart.js 12:5" became "/chart.js 12:5"
C13_Witness ==
    /\ Normalised
    /\ applied.args[1] =
          Entry("SEVERE", <<Sp>> \o base_url \o <<Txt("/chart.js"), Sp, LC(12, 5)>>)
    /\ applied.result = <<<<Txt("/chart.js"), Sp, LC(12, 5)>>>>

\* C14: of a local message with more than one locator only the first is rewritten
\* to the line span; every later locator is appended as it was
C14_OnlyFirstLocatorRewritten ==
    (Normalised /\ IsErrorLevel(applied.args[1]) /\ IsLocal) =>
        LET msg == applied.args[1].message
            locators == SelectSeq(msg, LAMBDA x : x.k = "lc")
            out == applied.result[1]
        IN  Len(locators) > 1 =>
                /\ Len(SelectSeq(out, LAMBDA x : x = Txt("line: "))) = 1
                /\ SelectSeq(out, LAMBDA x : x.k = "lc") = Tail(locators)

\* the walk C15 describes: an identifier gives its name and is not entered, an
\* identifier list gives the names of its identifiers, any other token with
\* sub-tokens is entered
RECURSIVE NamesThroughEveryGroup(_)
NamesThroughEveryGroup(token) ==
    IF token.type = "Identifier" THEN <<get_name(token)>>
    ELSE IF token.type = "IdentifierList"
    THEN Concat([i \in 1..Len(get_identifiers(token)) |->
                    NamesThroughEveryGroup(get_identifiers(token)[i])])
    ELSE Concat([i \in 1..Len(token.tokens) |-> NamesThroughEveryGroup(token.tokens[i])])

\* C15: get_column_names returns, depth first and left to right, the name of every
\* identifier reached from the statement's tokens through identifier lists and
\* through composite tokens of any kind, an identifier giving its name once and
\* not being entered; a statement without identifiers gives the empty sequence
C15_NamesThroughEveryComposite ==
    (applied # NothingApplied /\ applied.op = "get_column_names") =>
        applied.result =
            Concat([i \in 1..Len(applied.args[1].tokens) |->
                       NamesThroughEveryGroup(applied.args[1].tokens[i])])

\* the order of the steps of a call that raises nothing, and the steps at which a
\* call may leave that order for the finally clause with an exception
SuccessOrder ==
    { <<"idle", "acquire">>, <<"done", "acquire">>, <<"acquire", "install">>,
      <<"install", "navigate">>, <<"navigate", "wait">>, <<"wait", "loop">>,
      <<"loop", "read">>, <<"read", "sleeping">>, <<"sleeping", "loop">>,
      <<"loop", "finally">>, <<"finally", "done">> }
FailureOrder ==
    { <<"acquire", "finally">>, <<"navigate", "finally">>, <<"wait", "finally">>,
      <<"read", "finally">>, <<"finally", "done">> }

\* C16, step part: every step of a call follows the order; the snippet is in the
\* registry when the browser is acquired, the interceptor is installed when the
\* navigation is issued, a console read is made from the polling loop only, and
\* the step that ends the call is the one that quits the browser
StepsInOrder ==
    \A t \in Tasks :
        /\ pc'[t] # pc[t] =>
               <<pc[t], pc'[t]>> \in
                   (IF exc'[t] = "none" THEN SuccessOrder ELSE FailureOrder)
        /\ mine'[t] \notin {0, mine[t]} =>
               /\ uniqueid[t] \in DOMAIN snippets_map
               /\ snippets_map[uniqueid[t]].html = current_snippet
        /\ \A b \in Browsers : navs'[b] # navs[b] => request_interceptor[b]
        /\ reads'[t] = reads[t] + 1 => (pc[t] = "read" /\ navs[driver] = 1)
        /\ (pc'[t] = "done" /\ pc[t] # "done") =>
               /\ pc[t] = "finally"
               /\ driver # NoDriver => bstate'[driver] = "quit"
               /\ exc[t] = "none" =>
                      /\ driver = mine[t] /\ bstate[driver] = "open"
                      /\ quitBy'[driver] = Append(quitBy[driver], uniqueid[t])
               /\ success'[t] = success[t] /\ errors'[t] = errors[t]

\* C16, state part: no step of a call is made twice: its browser is navigated once
\* and no browser is open unless a call is under way
StepsOnce ==
    /\ \A b \in Browsers : navs[b] <= 1
    /\ \A t \in SeqTasks :
          Returned(t) =>
              /\ mine[t] = uniqueid[t] /\ request_interceptor[mine[t]]
              /\ navs[mine[t]] = 1 /\ bstate[mine[t]] = "quit"

\* C16: a call's steps are made in the order register, acquire, install, navigate,
\* wait for load, poll, quit, return, none skipped or made twice on the path that
\* raises nothing
C16_StepsInFixedOrder ==
    /\ [][StepsInOrder]_vars
    /\ []StepsOnce

\* a call that polled its console returned after the quit of its browser
C16_Witness ==
    \E t \in SeqTasks :
        /\ Returned(t) /\ reads[t] > 1
        /\ request_interceptor[mine[t]] /\ navs[mine[t]] = 1
        /\ quitBy[mine[t]] = <<uniqueid[t]>>

\* the page the composer gives for an html fragment and the two fixed scripts
ComposedPage(html) ==
    html_header_content
        \o ScriptTag(dashboard_script) \o ScriptTag(chart_library_script)
        \o html_style_close_header \o <<"<div>", html, "</div>", "</body></html>">>

\* C17: a request that carries snippet_id = k and is answered gets the page of
\* the html registered under k with the dashboard script before the chart
\* library, whichever snippet was registered last and whichever sessions are
\* under way
C17_PageOfRequestedSnippet ==
    [][ (handled' # handled /\ "snippet_id" \in handled'[1].request.url) =>
          LET k == handled'[1].request.snippet_id
          IN  IF k \in DOMAIN snippets_map
              THEN OneResponse(handled'[1], "text/html",
                               ComposedPage(snippets_map[k].html))
              ELSE handled'[1].raised # "none" ]_vars

\* with two sessions under way, the second registered last with another html, a
\* request for the first session's id got the first session's page
C17_Witness ==
    /\ handled # NothingHandled
    /\ \A t \in Tasks : pc[t] \in {"loop", "read", "sleeping"}
    /\ Len(snippets_map) = 2
    /\ snippets_map[1].html # snippets_map[2].html
    /\ current_snippet = snippets_map[2].html
    /\ Handled.request.snippet_id = 1
    /\ OneResponse(Handled, "text/html", ComposedPage(snippets_map[1].html))

\* the step is the start of a test() call by t
Starts(t) == pc[t] \in {"idle", "done"} /\ pc'[t] = "acquire"

\* C18: the registry only grows: every entry stays as it was stored, a test()
\* call adds one entry, under the id it minted and not used before, holding the
\* html it was given, nothing else adds an entry, and an interception leaves the
\* registry as it was
RegistryOnlyExtended ==
    /\ Len(snippets_map') >= Len(snippets_map)
    /\ \A k \in DOMAIN snippets_map : snippets_map'[k] = snippets_map[k]
    /\ \A t \in Tasks :
          Starts(t) =>
              /\ DOMAIN snippets_map' = DOMAIN snippets_map \cup {uniqueid'[t]}
              /\ uniqueid'[t] \notin DOMAIN snippets_map
              /\ \A u \in Tasks \ {t} : uniqueid'[u] # uniqueid'[t]
              /\ snippets_map'[uniqueid'[t]] =
                     [html |-> current_snippet', uniqueid |-> uniqueid'[t]]
    /\ snippets_map' # snippets_map => \E t \in Tasks : Starts(t)
    /\ handled' # handled => snippets_map' = snippets_map

C18_RegistryOnlyExtended == [][RegistryOnlyExtended]_vars

\* the registry holds two entries with different html, the first session has
\* returned, the second is under way, and a request was intercepted
C18_Witness ==
    /\ Len(snippets_map) = 2
    /\ snippets_map[1].html # snippets_map[2].html
    /\ \E t \in Tasks : uniqueid[t] = 1 /\ pc[t] = "done"
    /\ \E t \in Tasks : uniqueid[t] = 2 /\ pc[t] \in {"loop", "read", "sleeping"}
    /\ handled # NothingHandled

\* C19: with a wait budget of zero or less a call makes no console read, and if
\* its page loads it goes from the load wait to the finally clause and returns
\* (True, []); with a positive budget a returned verdict rests on at least one read
C19_NoBudgetNoRead ==
    \A t \in Tasks :
        /\ max_wait_time_seconds <= 0 =>
               /\ reads[t] = 0 /\ slept[t] = 0 /\ attempts[t] = 0
               /\ pc[t] \notin {"read", "sleeping"}
               /\ \A b \in Browsers : readBy[b] = {}
               /\ pc[t] = "loop" =>
                      ~LoopCondition(errors[t], attempts[t], max_wait_time_seconds)
               /\ Returned(t) => (success[t] = TRUE /\ errors[t] = <<>>)
        /\ (max_wait_time_seconds > 0 /\ Returned(t)) =>
               (reads[t] >= 1 /\ uniqueid[t] \in readBy[mine[t]])

\* a call on a tester with budget zero loaded its page and returned (True, [])
\* without a read
C19_Witness ==
    \E t \in SeqTasks :
        /\ max_wait_time_seconds = 0
        /\ Returned(t) /\ navs[mine[t]] = 1 /\ reads[t] = 0
        /\ success[t] = TRUE /\ errors[t] = <<>>
        /\ readBy[mine[t]] = {} /\ bstate[mine[t]] = "quit"

====
